---- MODULE Spec2Model ----
(***************************************************************************)
(* A model of the Obsidian bookmark plugin (AlexKucera/bookmark).          *)
(*                                                                         *)
(* The plugin keeps one transient bookmark per note as an invisible HTML   *)
(* comment appended to a line.  BookmarkPlugin.toggleBookmark either       *)
(* inserts the marker at the line estimated from the scroll position, or,  *)
(* when the note already holds a marker, jumps to it and removes it from   *)
(* a setTimeout callback 500 ms later.                                     *)
(*                                                                         *)
(* Text is a sequence of tokens.  "M" stands for the whole marker          *)
(* '<!-- bookmark-marker -->', "D" for the three dashes '---', "F" for a   *)
(* code fence, "a" for any other visible character, " " for a space, and   *)
(* "LF" / "CR" for the two line-break characters.  "Mh" and "Mt" are the   *)
(* two halves of the marker, '<!-- bookmark-' and 'marker -->', standing   *)
(* in a text as ordinary characters: side by side they are a marker, so a  *)
(* text never holds "Mh" directly followed by "Mt" (see Fuse).             *)
(*                                                                         *)
(* bookmarkManager.ts is not among the sources; its operations are         *)
(* modelled from the design document and are marked as such below.         *)
(***************************************************************************)
EXTENDS Integers, Sequences, FiniteSets, TLC

\* ------------------------------------------------------------------------
\* Bounds of the model
\* ------------------------------------------------------------------------

\* Most setTimeout callbacks pending at once.
MaxTimers == 1

\* Most Vault.process calls in flight at once.
MaxProcs == 1

\* Most setTimeout callbacks pending at once under rapid toggling.
RapidTimers == 2

\* Time that passes in one Tick step.
TickStep == 250

\* Stands for the floating-point Infinity: larger than any line index.
Infinity == 1000000

\* ------------------------------------------------------------------------
\* Program constants
\* ------------------------------------------------------------------------

\* setTimeout(..., 500)
REMOVAL_DELAY == 500

\* scroll <= 100 is read as a percentage
PERCENT_LIMIT == 100

\* the "null" of BookmarkState.lineNumber, and the -1 of frontmatterEndIndex
Null == -1

BOOKMARK_MARKER == "M"

Whitespace == {" ", "LF", "CR"}

Min(a, b) == IF a < b THEN a ELSE b

Max(a, b) == IF a > b THEN a ELSE b

\* ------------------------------------------------------------------------
\* Strings
\* ------------------------------------------------------------------------

\* Two pieces of text that come to stand side by side: the two halves of a
\* marker next to each other are a marker.
RECURSIVE Fuse(_)
Fuse(s) ==
    IF Len(s) < 2 THEN s
    ELSE IF s[1] = "Mh" /\ s[2] = "Mt"
         THEN <<"M">> \o Fuse(SubSeq(s, 3, Len(s)))
         ELSE <<s[1]>> \o Fuse(Tail(s))

\* content.includes(x) for a single token x
Includes(s, x) == \E i \in 1..Len(s) : s[i] = x

\* number of marker occurrences in a text
CountMarkers(s) == Cardinality({i \in 1..Len(s) : s[i] = BOOKMARK_MARKER})

\* A rewrite that joins the lines with '\n' whatever the text uses.
Eol_lf(content) == <<"LF">>

\* content.includes('\r\n') ? '\r\n' : '\n'
Eol(content) ==
    IF \E i \in 1..(Len(content) - 1) : content[i] = "CR" /\ content[i + 1] = "LF"
    THEN <<"CR", "LF">>
    ELSE <<"LF">>

RECURSIVE SplitFrom(_, _, _, _)
SplitFrom(s, i, cur, out) ==
    IF i > Len(s) THEN Append(out, cur)
    ELSE IF s[i] = "LF"
         THEN LET line == IF Len(cur) > 0 /\ cur[Len(cur)] = "CR"
                          THEN SubSeq(cur, 1, Len(cur) - 1)
                          ELSE cur
              IN  SplitFrom(s, i + 1, <<>>, Append(out, line))
         ELSE SplitFrom(s, i + 1, Append(cur, s[i]), out)

\* content.split(/\r?\n/): never empty, "" splits into one empty line
SplitLines(content) == SplitFrom(content, 1, <<>>, <<>>)

RECURSIVE JoinFrom(_, _, _)
JoinFrom(lines, eol, i) ==
    IF i > Len(lines) THEN <<>>
    ELSE IF i = Len(lines) THEN lines[i]
    ELSE lines[i] \o eol \o JoinFrom(lines, eol, i + 1)

\* lines.join(eol)
Join(lines, eol) == JoinFrom(lines, eol, 1)

\* The line separators of a text, in order, as the text holds them.
RECURSIVE SepsFrom(_, _, _)
SepsFrom(s, i, out) ==
    IF i > Len(s) THEN out
    ELSE IF s[i] = "LF"
         THEN SepsFrom(s, i + 1,
                       Append(out, IF i > 1 /\ s[i - 1] = "CR"
                                   THEN <<"CR", "LF">> ELSE <<"LF">>))
         ELSE SepsFrom(s, i + 1, out)

Separators(content) == SepsFrom(content, 1, <<>>)

RECURSIVE JoinSepsFrom(_, _, _)
JoinSepsFrom(lines, seps, i) ==
    IF i > Len(lines) THEN <<>>
    ELSE IF i = Len(lines) THEN lines[i]
    ELSE lines[i] \o seps[i] \o JoinSepsFrom(lines, seps, i + 1)

\* editor.setLine(n, text): one line of the buffer replaced, every line
\* break kept as it is.  n is 0-based.
SetLine(content, n, text) ==
    JoinSepsFrom([SplitLines(content) EXCEPT ![n + 1] = text],
                 Separators(content), 1)

\* editor.lineCount()
LineCount(content) == Len(SplitLines(content))

\* str.replace(MARKER_CLEANUP_RE, '') with MARKER_CLEANUP_RE = /\s*M/g:
\* every marker goes, and with it the whole run of whitespace that leads up
\* to it.  A token is dropped when it is a marker, or when it is whitespace
\* and the first token after its whitespace run is a marker.  The scan goes
\* over the text once: what the deletions bring together is not looked at
\* again.
RECURSIVE NextNonSpace(_, _)
NextNonSpace(s, i) ==
    IF i > Len(s) THEN "end"
    ELSE IF s[i] \in Whitespace THEN NextNonSpace(s, i + 1)
    ELSE s[i]

RECURSIVE CleanupFrom(_, _)
CleanupFrom(s, i) ==
    IF i > Len(s) THEN <<>>
    ELSE IF s[i] = BOOKMARK_MARKER THEN CleanupFrom(s, i + 1)
    ELSE IF s[i] \in Whitespace /\ NextNonSpace(s, i) = BOOKMARK_MARKER
         THEN CleanupFrom(s, i + 1)
    ELSE <<s[i]>> \o CleanupFrom(s, i + 1)

ReplaceMarkerCleanupRe(s) == Fuse(CleanupFrom(s, 1))

\* ------------------------------------------------------------------------
\* BookmarkManager (bookmarkManager.ts; modelled from the design document)
\* ------------------------------------------------------------------------

\* findBookmark(content): the first line, top to bottom, that holds the
\* marker.
FindBookmark(content) ==
    LET lines == SplitLines(content)
        hits  == {i \in 1..Len(lines) : Includes(lines[i], BOOKMARK_MARKER)}
    IN  IF hits = {}
        THEN [hasBookmark |-> FALSE, lineNumber |-> Null]
        ELSE [hasBookmark |-> TRUE,
              lineNumber  |-> (CHOOSE i \in hits : \A j \in hits : i <= j) - 1]

\* checkForMultipleBookmarks(content): the number of notices it shows, one
\* when the text holds more than one marker.
CheckForMultipleBookmarks(content) ==
    IF CountMarkers(content) > 1 THEN 1 ELSE 0

\* A fence-delimiter line begins with the fence token.
IsFenceLine(line) == Len(line) > 0 /\ line[1] = "F"

\* The number of fence-delimiter lines at or before line n (0-based).
FencesUpTo(lines, n) ==
    Cardinality({i \in 1..(n + 1) : i <= Len(lines) /\ IsFenceLine(lines[i])})

\* Rule 1 of the placement policy: a candidate inside the metadata header
\* moves to the line after the closing delimiter, clamped to the last line.
HeaderAvoid(lines, n) ==
    LET closers == {i \in 2..Len(lines) : lines[i] = <<"D">>}
        closing == IF lines[1] = <<"D">> /\ closers # {}
                   THEN (CHOOSE i \in closers : \A j \in closers : i <= j) - 1
                   ELSE Null
    IN  IF closing # Null /\ n <= closing
        THEN Min(closing + 1, Len(lines) - 1)
        ELSE n

\* A relocation that stopped on the opening fence instead of stepping over
\* it.
FenceAvoid_ontoFence(lines, n) ==
    IF IsFenceLine(lines[n + 1]) \/ FencesUpTo(lines, n) % 2 = 1
    THEN LET opening == IF FencesUpTo(lines, n) % 2 = 1
                        THEN CHOOSE i \in 0..n :
                                 /\ IsFenceLine(lines[i + 1])
                                 /\ \A j \in (i + 1)..n : ~IsFenceLine(lines[j + 1])
                        ELSE CHOOSE i \in 0..(n - 1) :
                                 /\ IsFenceLine(lines[i + 1])
                                 /\ \A j \in (i + 1)..(n - 1) : ~IsFenceLine(lines[j + 1])
         IN  opening
    ELSE n

\* Rule 2: a candidate on a fence-delimiter line or inside a fence moves to
\* the line before the opening fence; with the fence on line 0 it falls
\* back to the start of the document, header avoidance applied again.
FenceAvoid(lines, n) ==
    IF IsFenceLine(lines[n + 1]) \/ FencesUpTo(lines, n) % 2 = 1
    THEN LET opening == IF FencesUpTo(lines, n) % 2 = 1
                        THEN CHOOSE i \in 0..n :
                                 /\ IsFenceLine(lines[i + 1])
                                 /\ \A j \in (i + 1)..n : ~IsFenceLine(lines[j + 1])
                        ELSE CHOOSE i \in 0..(n - 1) :
                                 /\ IsFenceLine(lines[i + 1])
                                 /\ \A j \in (i + 1)..(n - 1) : ~IsFenceLine(lines[j + 1])
         IN  IF opening > 0 THEN opening - 1 ELSE HeaderAvoid(lines, 0)
    ELSE n

\* resolveTarget(document, candidateLine) of the editable insertion path.
ResolveTarget(lines, n) ==
    LET c == Max(0, Min(n, Len(lines) - 1))
    IN  Max(0, Min(FenceAvoid(lines, HeaderAvoid(lines, c)), Len(lines) - 1))

\* insertAtEndOfLine: " " + marker appended unless the line holds a marker.
InsertAtEndOfLine(line) ==
    IF Includes(line, BOOKMARK_MARKER) THEN line
    ELSE line \o <<" ", BOOKMARK_MARKER>>

\* insertBookmark(editor, line)
InsertBookmark(content, n) ==
    LET lines  == SplitLines(content)
        target == ResolveTarget(lines, n)
    IN  SetLine(content, target, InsertAtEndOfLine(lines[target + 1]))

\* removeFromLine: the marker and at most one space before it.
RemoveFromLine(line) ==
    IF ~Includes(line, BOOKMARK_MARKER) THEN line
    ELSE LET m     == CHOOSE i \in 1..Len(line) :
                          /\ line[i] = BOOKMARK_MARKER
                          /\ \A j \in 1..(i - 1) : line[j] # BOOKMARK_MARKER
             start == IF m > 1 /\ line[m - 1] = " " THEN m - 1 ELSE m
         IN  Fuse(SubSeq(line, 1, start - 1) \o SubSeq(line, m + 1, Len(line)))

\* removeBookmark(editor): the marker is looked up again in the buffer and
\* taken from the line that holds it; nothing happens when there is none.
RemoveBookmark(content) ==
    LET bs == FindBookmark(content)
    IN  IF bs.hasBookmark
        THEN SetLine(content, bs.lineNumber,
                     RemoveFromLine(SplitLines(content)[bs.lineNumber + 1]))
        ELSE content

\* floor(a / b) for a >= 0: Infinity when b = 0 and a > 0
Quot(a, b) == IF b = 0 THEN Infinity ELSE a \div b

\* getFirstVisibleLine(editor): the editable-mode estimate.
GetFirstVisibleLine(sample, totalLines) ==
    LET est == IF sample.scrollHeight > sample.viewport
               THEN Quot(sample.scroll * totalLines,
                         sample.scrollHeight - sample.viewport)
               ELSE Min(Quot(sample.scroll, 34), totalLines)
    IN  Min(Max(0, est), totalLines - 1)

\* ------------------------------------------------------------------------
\* BookmarkPlugin: the pure parts of toggleBookmark
\* ------------------------------------------------------------------------

\* The inputs <<x, d, t>> of this model on which x / d * t, computed in
\* IEEE-754 double precision as JavaScript numbers are, falls short of the
\* exact value by a rounding error and Math.floor gives one less than the
\* exact quotient: 29 / 100 * 100 is 28.999999999999996.
RoundsShort == { <<29, 100, 100>> }

\* Math.floor(x / d * t) for x >= 0 and t > 0; x / 0 is Infinity for x > 0
FloorScaled(x, d, t) ==
    IF <<x, d, t>> \in RoundsShort THEN Quot(x * t, d) - 1 ELSE Quot(x * t, d)

\* An estimate returned as computed, without the Math.min / Math.max.
GetVisibleLineInPreview_unclamped(sample, totalLines) ==
    IF sample.throws THEN 0
    ELSE IF sample.scroll <= PERCENT_LIMIT
         THEN FloorScaled(sample.scroll, PERCENT_LIMIT, totalLines)
         ELSE FloorScaled(sample.scroll, sample.scrollHeight, totalLines)

\* getVisibleLineInPreview(view): the scroll value is read as a percentage
\* up to 100 and as pixels above; a throwing host call gives line 0.
GetVisibleLineInPreview(sample, totalLines) ==
    IF sample.throws THEN 0
    ELSE LET estimatedLine ==
                 IF sample.scroll <= PERCENT_LIMIT
                 THEN FloorScaled(sample.scroll, PERCENT_LIMIT, totalLines)
                 ELSE FloorScaled(sample.scroll, sample.scrollHeight, totalLines)
         IN  Min(Max(0, estimatedLine), totalLines - 1)

\* A loop without the break: the last '---' of the note, not the first.
FrontmatterEndIndex_nobreak(lines) ==
    LET closers == {i \in 2..Len(lines) : lines[i] = <<"D">>}
    IN  IF lines[1] = <<"D">> /\ closers # {}
        THEN (CHOOSE i \in closers : \A j \in closers : i >= j) - 1
        ELSE Null

\* The loop that looks for the closing '---' of the frontmatter; -1 when
\* line 0 is not '---' or no later line is.  0-based.
FrontmatterEndIndex(lines) ==
    LET closers == {i \in 2..Len(lines) : lines[i] = <<"D">>}
    IN  IF lines[1] = <<"D">> /\ closers # {}
        THEN (CHOOSE i \in closers : \A j \in closers : i <= j) - 1
        ELSE Null

\* The rule without its three Math.min / Math.max.
PreviewTargetLine_unclamped(lines, visibleLine) ==
    LET fm == FrontmatterEndIndex(lines)
    IN  IF fm # Null /\ visibleLine <= fm THEN fm + 1 ELSE visibleLine

\* The earlier revision of the rule: only a candidate on line 0 is moved.
PreviewTargetLine_line0only(lines, visibleLine) ==
    LET t0 == Min(visibleLine, Len(lines) - 1)
        t1 == IF lines[1] = <<"D">> /\ t0 = 0 /\ FrontmatterEndIndex(lines) # Null
              THEN Min(FrontmatterEndIndex(lines) + 1, Len(lines) - 1)
              ELSE t0
    IN  Max(0, Min(t1, Len(lines) - 1))

\* targetLine of the rendered-mode insertion.  0-based.
PreviewTargetLine(lines, visibleLine) ==
    LET t0  == Min(visibleLine, Len(lines) - 1)
        fm  == FrontmatterEndIndex(lines)
        t1  == IF fm # Null /\ t0 <= fm
               THEN Min(fm + 1, Len(lines) - 1)
               ELSE t0
    IN  Max(0, Min(t1, Len(lines) - 1))

\* The earlier revision of the insertion: the marker is appended whether or
\* not the line holds one.
InsertTransform_always(content, visibleLine) ==
    LET eol         == Eol(content)
        lines       == SplitLines(content)
        targetLine  == PreviewTargetLine(lines, visibleLine)
        lineContent == lines[targetLine + 1]
    IN  Join([lines EXCEPT ![targetLine + 1] =
                  lineContent \o <<" ", BOOKMARK_MARKER>>],
             eol)

\* The function handed to Vault.process by the rendered-mode insertion.
InsertTransform(content, visibleLine) ==
    LET eol         == Eol(content)
        lines       == SplitLines(content)
        targetLine  == PreviewTargetLine(lines, visibleLine)
        lineContent == lines[targetLine + 1]
    IN  Join([lines EXCEPT ![targetLine + 1] =
                  IF ~Includes(lineContent, BOOKMARK_MARKER)
                  THEN lineContent \o <<" ", BOOKMARK_MARKER>>
                  ELSE lineContent],
             eol)

\* A removal that applied the header rule of the insertion to the line it
\* found.
RemoveTransform_placed(content) ==
    LET bookmarkState == FindBookmark(content)
    IN  IF bookmarkState.hasBookmark /\ bookmarkState.lineNumber # Null
        THEN LET eol    == Eol(content)
                 lines  == SplitLines(content)
                 target == PreviewTargetLine(lines, bookmarkState.lineNumber)
             IN  Join([lines EXCEPT ![target + 1] = ReplaceMarkerCleanupRe(@)],
                      eol)
        ELSE content

\* A removal that split and joined the text whether or not it found a
\* marker.
RemoveTransform_rejoin(content) ==
    LET bookmarkState == FindBookmark(content)
        eol           == Eol(content)
        lines         == SplitLines(content)
    IN  IF bookmarkState.hasBookmark /\ bookmarkState.lineNumber # Null
        THEN Join([lines EXCEPT ![bookmarkState.lineNumber + 1] =
                       ReplaceMarkerCleanupRe(@)],
                  eol)
        ELSE Join(lines, eol)

\* The function handed to Vault.process by the rendered-mode removal.
RemoveTransform(content) ==
    LET bookmarkState == FindBookmark(content)
    IN  IF bookmarkState.hasBookmark /\ bookmarkState.lineNumber # Null
        THEN LET eol   == Eol(content)
                 lines == SplitLines(content)
             IN  IF bookmarkState.lineNumber + 1 > Len(lines) THEN content
                 ELSE Join([lines EXCEPT ![bookmarkState.lineNumber + 1] =
                                ReplaceMarkerCleanupRe(@)],
                           eol)
        ELSE content

\* content.replace(MARKER_CLEANUP_RE, ''): the whole text at once.
StripTransform(content) == ReplaceMarkerCleanupRe(content)

\* What Vault.process writes for each kind of call: the insertion of a
\* toggle, the removal of a callback, the removal from a note that is no
\* longer open, the cleanup command.
Transform(kind, content, visibleLine) ==
    CASE kind = "insert"     -> InsertTransform(content, visibleLine)
      [] kind = "removeLine" -> RemoveTransform(content)
      [] kind = "strip"      -> StripTransform(content)
      [] kind = "cleanup"    -> StripTransform(content)

\* The icon that updateActionIcon is given after each kind of call.
IconAfter(kind) == IF kind = "insert" THEN "bookmark-check" ELSE "bookmark"

\* ------------------------------------------------------------------------
\* The state
\* ------------------------------------------------------------------------

Files == {"A", "B"}

\* view.file === null: no note is open in the view
NoFile == "none"

\* The notes the behaviours start from (file A): a marked note, a header
\* that ends the note, a fenced block, two markers, a header with a marked
\* body and mixed line endings.
InitDocsA ==
    { <<"a", " ", "M", "LF", "a">>,
      <<"D", "LF", "D">>,
      <<"F", "LF", "a", "LF", "F">>,
      <<"a", " ", "M", "LF", "a", " ", "M">>,
      <<"D", "CR", "LF", "D", "LF", "a", " ", "M">> }

\* What the host reports about the scroll position when asked.
Samples ==
    { [scroll |-> 0,   viewport |-> 200, scrollHeight |-> 400, throws |-> FALSE],
      [scroll |-> 60,  viewport |-> 200, scrollHeight |-> 400, throws |-> FALSE],
      [scroll |-> 300, viewport |-> 200, scrollHeight |-> 400, throws |-> FALSE],
      [scroll |-> 300, viewport |-> 0,   scrollHeight |-> 0,   throws |-> FALSE],
      [scroll |-> 60,  viewport |-> 200, scrollHeight |-> 400, throws |-> TRUE] }

VARIABLES
    docs,      \* the text of every note
    viewFile,  \* view.file: the note the view shows, or NoFile
    mode,      \* view.getMode(): "source" or "preview"
    icon,      \* the header button: "bookmark" or "bookmark-check"
    timers,    \* the pending setTimeout callbacks, oldest first
    procs,     \* the Vault.process calls in flight
    last,      \* history: what the last step did
    warnings,  \* the multiple-bookmark notices the last step showed
    decorations, \* the editor extension's decorations
    leaves,    \* the markdown views of the workspace
    activeView, \* getActiveViewOfType(MarkdownView), or NoView
    lifecycle, \* the plugin: "unloaded", "loaded", or "ready" (layout ready)
    actionElements, \* ViewActionManager.actionElements: view -> element
    headerActions \* the action buttons in the header of every view

\* The view header, the workspace and the registry of action buttons.
chrome == <<leaves, activeView, lifecycle, actionElements, headerActions>>

vars == <<docs, viewFile, mode, icon, timers, procs, last, warnings,
          decorations, chrome>>

\* The markdown views; the toggles and removals of this module run in "v1".
Views == {"v1", "v2", "v3"}

NoView == "none"

\* The workspace once the layout is ready and "v1", the only view, has
\* been set up: one button in its header, registered for it.
ChromeReady ==
    /\ leaves = {"v1"}
    /\ activeView = "v1"
    /\ lifecycle = "ready"
    /\ actionElements = [v \in {"v1"} |-> 1]
    /\ headerActions = [v \in Views |-> IF v = "v1" THEN {1} ELSE {}]

\* editor.getValue(): the text of the note the view shows; nothing when no
\* note is open.
EditorValue == IF viewFile = NoFile THEN <<>> ELSE docs[viewFile]

\* A pending callback.  age is the time since setTimeout; the rest is
\* history of the toggle that scheduled it:
\*   reqFile, reqMode: the note and the mode at the request
\*   hist: "quiet" while the note held exactly one marker at the request
\*         and no other toggle, cleanup or user edit has happened since;
\*         the name of a note while that note's only marker is one that a
\*         later toggle put through the editor; "edited" once the user
\*         has deleted the markers by hand; "busy" otherwise.
NewTimer(file, m, hist) ==
    [age |-> 0, reqFile |-> file, reqMode |-> m, hist |-> hist]

\* A Vault.process call in flight: the function it was given (kind), the
\* file, and visibleLine for an insertion.  A removal inherits hist from
\* its callback; other calls have "-".
NewProc(kind, file, line, hist) ==
    [kind |-> kind, file |-> file, line |-> line, hist |-> hist]

\* History of the last step: which handler ran and how (type), the note it
\* was aimed at (file), the line it navigated to or estimated (line),
\* whether the text it looked at held a marker (found), and for a removal
\* the history of its callback (hist, modeChanged).
Did(type, file, line, found, hist, modeChanged) ==
    [type |-> type, file |-> file, line |-> line, found |-> found,
     hist |-> hist, modeChanged |-> modeChanged]

Nothing == Did("none", NoFile, Null, FALSE, "-", FALSE)

\* checkAndUpdateIcon's choice of icon
IconFor(content) ==
    IF FindBookmark(content).hasBookmark THEN "bookmark-check" ELSE "bookmark"

Init ==
    /\ docs \in {[f \in Files |-> IF f = "A" THEN a ELSE b] :
                 a \in InitDocsA, b \in { <<"a", " ", "M">> }}
    /\ viewFile = "A"
    /\ mode \in {"source", "preview"}
    /\ icon = IconFor(docs["A"])
    /\ timers = <<>>
    /\ procs = <<>>
    /\ last = Nothing
    /\ warnings = 0
    /\ decorations = {}
    /\ ChromeReady

\* Another toggle, a cleanup or a user edit happens, or the rewriting that
\* one of them asked for: no pending removal is quiet any more.
Disturbed(q) ==
    [i \in 1..Len(q) |->
        [q[i] EXCEPT !.hist = IF @ = "quiet" THEN "busy" ELSE @]]

\* Note f has been rewritten from `before` to `after`: a marker that a
\* later toggle put there is no longer as that toggle left it.
Touched(q, f, before, after) ==
    [i \in 1..Len(q) |->
        [q[i] EXCEPT !.hist = IF @ = f /\ after # before THEN "busy" ELSE @]]

\* A toggle has put the only marker of note f through the editor.
Marked(q, f) ==
    [i \in 1..Len(q) |-> [q[i] EXCEPT !.hist = IF @ = "-" THEN @ ELSE f]]

\* The user has deleted the markers by hand.
Deleted(q) ==
    [i \in 1..Len(q) |-> [q[i] EXCEPT !.hist = IF @ = "-" THEN @ ELSE "edited"]]

RemoveAt(q, i) == SubSeq(q, 1, i - 1) \o SubSeq(q, i + 1, Len(q))

\* ------------------------------------------------------------------------
\* BookmarkPlugin.toggleBookmark
\* ------------------------------------------------------------------------

\* A toggle that trusted the icon instead of reading the text.
TakesJumpBranch_fromIcon(bookmarkState, indicator) ==
    indicator = "bookmark-check"

\* if (bookmarkState.hasBookmark && bookmarkState.lineNumber !== null)
TakesJumpBranch(bookmarkState, indicator) ==
    bookmarkState.hasBookmark /\ bookmarkState.lineNumber # Null

\* const originalFile = view.file, the first statement of the callback
OriginalFile(atRequest, atFire) == atFire

\* A callback that used the mode captured by the toggle.
CurrentMode_atRequest(atRequest, atFire) == atRequest

\* const currentMode = view.getMode(), read inside the callback
CurrentMode(atRequest, atFire) == atFire

\* A removal that did not wait.
TimerDue_nodelay(t) == TRUE

\* setTimeout(..., 500): the callback runs once the delay has passed
TimerDue(t) == t.age >= REMOVAL_DELAY

\* An icon update that did not await the rewriting of the file.
IconWhileAwaiting_early(current, kind) == IconAfter(kind)

\* await this.app.vault.process(...); updateActionIcon(...): the icon is
\* left alone until the file has been rewritten
IconWhileAwaiting(current, kind) == current

\* The command is an editor command: in source mode it needs an open note.
\* A toggle that cancelled the callbacks still pending.
Schedule_replacing(pending, t) == <<t>>

\* setTimeout(callback, 500): one more callback, after those pending.
Schedule(pending, t) == Append(pending, t)

ToggleBookmark ==
    \E sample \in Samples :
        /\ viewFile # NoFile \/ mode = "preview"
        /\ LET content       == EditorValue
               bookmarkState == FindBookmark(content)
               found         == CountMarkers(content) > 0
           IN  IF TakesJumpBranch(bookmarkState, icon)
               THEN \* jumpToBookmark now, removal from a timer
                    /\ timers' = Schedule(Disturbed(timers),
                                          NewTimer(viewFile, mode,
                                                   IF CountMarkers(content) = 1
                                                   THEN "quiet" ELSE "busy"))
                    /\ procs' = Disturbed(procs)
                    /\ last' = Did("jump", viewFile, bookmarkState.lineNumber,
                                   found, "-", FALSE)
                    /\ UNCHANGED <<docs, icon>>
               ELSE IF mode = "preview"
                    THEN LET visibleLine ==
                                 GetVisibleLineInPreview(sample, LineCount(content))
                         IN  IF viewFile = NoFile
                             THEN \* if (!view.file) return
                                  /\ timers' = Disturbed(timers)
                                  /\ procs' = Disturbed(procs)
                                  /\ last' = Did("insertNone", NoFile, Null, found,
                                                 "-", FALSE)
                                  /\ UNCHANGED <<docs, icon>>
                             ELSE /\ timers' = Disturbed(timers)
                                  /\ procs' = Append(Disturbed(procs),
                                                     NewProc("insert", viewFile,
                                                             visibleLine, "-"))
                                  /\ icon' = IconWhileAwaiting(icon, "insert")
                                  /\ last' = Did("insertReq", viewFile, Null, found,
                                                 "-", FALSE)
                                  /\ UNCHANGED docs
                    ELSE LET detectedLine ==
                                 GetFirstVisibleLine(sample, LineCount(content))
                             after == InsertBookmark(content, detectedLine)
                             put   == after # content /\ CountMarkers(after) = 1
                         IN  /\ docs' = [docs EXCEPT ![viewFile] = after]
                             /\ icon' = "bookmark-check"
                             /\ timers' = IF put THEN Marked(timers, viewFile)
                                          ELSE Touched(Disturbed(timers), viewFile,
                                                       content, after)
                             /\ procs' = IF put THEN Marked(procs, viewFile)
                                         ELSE Touched(Disturbed(procs), viewFile,
                                                      content, after)
                             /\ last' = Did("insertEdit", viewFile, detectedLine,
                                            found, "-", FALSE)
        /\ UNCHANGED <<viewFile, mode>>
        /\ warnings' = 0
        /\ UNCHANGED <<decorations, chrome>>

\* The callback handed to setTimeout.  Callbacks run in the order they were
\* scheduled, all delays being equal.
FireTimer ==
    /\ timers # <<>>
    /\ TimerDue(Head(timers))
    /\ LET t            == Head(timers)
           originalFile == OriginalFile(t.reqFile, viewFile)
           currentMode  == CurrentMode(t.reqMode, mode)
           changed      == t.reqMode # mode
       IN  IF currentMode = "preview"
           THEN IF originalFile = NoFile
                THEN \* if (!originalFile) return
                     /\ timers' = Tail(timers)
                     /\ last' = Did("fireNone", NoFile, Null, FALSE, t.hist, changed)
                     /\ UNCHANGED <<docs, icon, procs>>
                ELSE /\ timers' = Tail(timers)
                     /\ procs' = Append(procs,
                                        NewProc("removeLine", originalFile, Null,
                                                t.hist))
                     /\ icon' = IconWhileAwaiting(icon, "removeLine")
                     /\ last' = Did("fireProcess", originalFile, Null,
                                    CountMarkers(docs[originalFile]) > 0,
                                    t.hist, changed)
                     /\ UNCHANGED docs
           ELSE IF originalFile # NoFile /\ viewFile # originalFile
                THEN /\ timers' = Tail(timers)
                     /\ procs' = Append(procs,
                                        NewProc("strip", originalFile, Null, t.hist))
                     /\ icon' = IconWhileAwaiting(icon, "strip")
                     /\ last' = Did("fireProcess", originalFile, Null,
                                    CountMarkers(docs[originalFile]) > 0,
                                    t.hist, changed)
                     /\ UNCHANGED docs
                ELSE LET before == EditorValue
                         after  == RemoveBookmark(before)
                     IN  /\ docs' = IF viewFile = NoFile THEN docs
                                    ELSE [docs EXCEPT ![viewFile] = after]
                         /\ icon' = "bookmark"
                         /\ timers' = Touched(Tail(timers), viewFile, before, after)
                         /\ procs' = Touched(procs, viewFile, before, after)
                         /\ last' = Did("fireBuffer", viewFile, Null,
                                        CountMarkers(before) > 0, t.hist, changed)
    /\ UNCHANGED <<viewFile, mode>>
    /\ warnings' = 0
    /\ UNCHANGED <<decorations, chrome>>

\* Vault.process reads the file, applies the function and writes the
\* result; the statements after the await then update the icon.
ProcessComplete(i) ==
    /\ LET p      == procs[i]
           before == docs[p.file]
           after  == Transform(p.kind, before, p.line)
       IN  /\ docs' = [docs EXCEPT ![p.file] = after]
           /\ icon' = IconAfter(p.kind)
           /\ timers' = Touched(IF p.kind \in {"insert", "cleanup"}
                                THEN Disturbed(timers) ELSE timers,
                                p.file, before, after)
           /\ procs' = Touched(IF p.kind \in {"insert", "cleanup"}
                               THEN Disturbed(RemoveAt(procs, i))
                               ELSE RemoveAt(procs, i),
                               p.file, before, after)
           /\ last' = Did(p.kind, p.file, p.line, CountMarkers(before) > 0,
                          p.hist, FALSE)
    /\ UNCHANGED <<viewFile, mode>>
    /\ warnings' = 0
    /\ UNCHANGED <<decorations, chrome>>

\* ------------------------------------------------------------------------
\* The other handlers and the host
\* ------------------------------------------------------------------------

\* cleanupMultipleBookmarks(editor, view); an editor command as well
CleanupMultipleBookmarks ==
    /\ viewFile # NoFile \/ mode = "preview"
    /\ LET currentMode == mode
       IN  IF currentMode = "preview"
           THEN IF viewFile = NoFile
                THEN \* if (!view.file) return
                     /\ timers' = Disturbed(timers)
                     /\ procs' = Disturbed(procs)
                     /\ last' = Did("cleanupNone", NoFile, Null, FALSE, "-", FALSE)
                     /\ UNCHANGED <<docs, icon>>
                ELSE /\ timers' = Disturbed(timers)
                     /\ procs' = Append(Disturbed(procs),
                                        NewProc("cleanup", viewFile, Null, "-"))
                     /\ icon' = IconWhileAwaiting(icon, "cleanup")
                     /\ last' = Did("cleanupReq", viewFile, Null, FALSE, "-", FALSE)
                     /\ UNCHANGED docs
           ELSE LET content        == EditorValue
                    cleanedContent == StripTransform(content)
                IN  /\ docs' = [docs EXCEPT ![viewFile] = cleanedContent]
                    /\ icon' = "bookmark"
                    /\ timers' = Touched(Disturbed(timers), viewFile, content,
                                         cleanedContent)
                    /\ procs' = Touched(Disturbed(procs), viewFile, content,
                                        cleanedContent)
                    /\ last' = Did("cleanupEdit", viewFile, Null, FALSE, "-", FALSE)
    /\ UNCHANGED <<viewFile, mode>>
    /\ warnings' = 0
    /\ UNCHANGED <<decorations, chrome>>

\* handleActiveLeafChange -> setupView -> checkAndUpdateIcon
CheckAndUpdateIcon ==
    /\ icon' = IconFor(EditorValue)
    /\ last' = Did("checkIcon", viewFile, Null,
                   FindBookmark(EditorValue).hasBookmark, "-", FALSE)
    /\ UNCHANGED <<docs, viewFile, mode, timers, procs>>
    /\ warnings' = CheckForMultipleBookmarks(EditorValue)
    /\ UNCHANGED <<decorations, chrome>>

\* Time passes: every pending callback is TickStep older, up to its delay.
Tick ==
    /\ \E i \in 1..Len(timers) : timers[i].age < REMOVAL_DELAY
    /\ timers' = [i \in 1..Len(timers) |->
                      [timers[i] EXCEPT !.age = Min(@ + TickStep, REMOVAL_DELAY)]]
    /\ last' = Nothing
    /\ UNCHANGED <<docs, viewFile, mode, icon, procs>>
    /\ warnings' = 0
    /\ UNCHANGED <<decorations, chrome>>

\* The user switches between source and reading view.
SwitchMode ==
    /\ mode' = IF mode = "source" THEN "preview" ELSE "source"
    /\ last' = Nothing
    /\ UNCHANGED <<docs, viewFile, icon, timers, procs>>
    /\ warnings' = 0
    /\ UNCHANGED <<decorations, chrome>>

\* The user opens another note in the same view, or closes the note.
SwitchFile(f) ==
    /\ f # viewFile
    /\ viewFile' = f
    /\ last' = Nothing
    /\ UNCHANGED <<docs, mode, icon, timers, procs>>
    /\ warnings' = 0
    /\ UNCHANGED <<decorations, chrome>>

\* What a user edit makes of a text: every marker is deleted by hand, with
\* the space in front of it.
RECURSIVE DeleteFrom(_, _)
DeleteFrom(s, i) ==
    IF i > Len(s) THEN <<>>
    ELSE IF s[i] = BOOKMARK_MARKER THEN DeleteFrom(s, i + 1)
    ELSE IF s[i] = " " /\ i < Len(s) /\ s[i + 1] = BOOKMARK_MARKER
         THEN DeleteFrom(s, i + 1)
    ELSE <<s[i]>> \o DeleteFrom(s, i + 1)

Edited(content) == DeleteFrom(content, 1)

\* The user edits the note the view shows, behind the plugin's back.
ExternalEdit ==
    /\ viewFile # NoFile
    /\ Edited(EditorValue) # EditorValue
    /\ docs' = [docs EXCEPT ![viewFile] = Edited(@)]
    /\ timers' = Deleted(timers)
    /\ procs' = Deleted(procs)
    /\ last' = Did("edit", viewFile, Null, TRUE, "-", FALSE)
    /\ UNCHANGED <<viewFile, mode, icon>>
    /\ warnings' = 0
    /\ UNCHANGED <<decorations, chrome>>

\* The model keeps at most MaxTimers callbacks pending and MaxProcs calls
\* in flight; the program has no such limit.
Bounded == Len(timers') <= MaxTimers /\ Len(procs') <= MaxProcs

Next ==
    \/ ToggleBookmark /\ Bounded
    \/ FireTimer /\ Bounded
    \/ \E i \in 1..Len(procs) : ProcessComplete(i)
    \/ CleanupMultipleBookmarks /\ Bounded
    \/ CheckAndUpdateIcon
    \/ Tick
    \/ SwitchMode
    \/ \E f \in Files \cup {NoFile} : SwitchFile(f)
    \/ ExternalEdit

Spec == Init /\ [][Next]_vars

\* One note stays open in the view: everything but SwitchFile.
NextOneNote ==
    \/ ToggleBookmark /\ Bounded
    \/ FireTimer /\ Bounded
    \/ \E i \in 1..Len(procs) : ProcessComplete(i)
    \/ CleanupMultipleBookmarks /\ Bounded
    \/ CheckAndUpdateIcon
    \/ Tick
    \/ SwitchMode
    \/ ExternalEdit

SpecOneNote == Init /\ [][NextOneNote]_vars

\* Rapid toggling of one note in source mode, nothing else happening: up to
\* RapidTimers callbacks pending at once.
InitRapid == Init /\ mode = "source"

NextRapid ==
    \/ ToggleBookmark /\ Len(timers') <= RapidTimers
    \/ FireTimer
    \/ Tick

SpecRapid == InitRapid /\ [][NextRapid]_vars

\* ------------------------------------------------------------------------
\* The claims
\* ------------------------------------------------------------------------

\* The steps of a toggle request, of a callback, and the steps that take a
\* marker out on behalf of a callback.
ToggleTypes == {"jump", "insertEdit", "insertReq", "insertNone"}

FireTypes == {"fireBuffer", "fireProcess", "fireNone"}

RemovalTypes == {"fireBuffer", "removeLine", "strip"}

\* The note the last step was aimed at, before and after the step.
Before == docs[last'.file]

After == docs'[last'.file]

\* resolveTarget for the rendered-mode insertion, as the design document
\* has it: clamp, then header avoidance (fence avoidance is for the
\* editable path only).
ResolveTargetRendered(lines, n) ==
    HeaderAvoid(lines, Max(0, Min(n, Len(lines) - 1)))

\* C1: a toggle on a note without a marker leaves exactly one marker, on
\* the line that resolveTarget gives for the estimated line, and the icon
\* then is bookmark-check; this in source mode (the editor is changed
\* at once) and in reading mode (the file is rewritten by Vault.process).
C1_InsertOnUnmarked ==
    [][ /\ (last'.type = "insertEdit" /\ ~last'.found) =>
              /\ CountMarkers(After) = 1
              /\ FindBookmark(After).lineNumber =
                     ResolveTarget(SplitLines(Before), last'.line)
              /\ icon' = "bookmark-check"
        /\ (last'.type = "insert" /\ ~last'.found) =>
              /\ CountMarkers(After) = 1
              /\ FindBookmark(After).lineNumber =
                     ResolveTargetRendered(SplitLines(Before), last'.line)
              /\ icon' = "bookmark-check" ]_vars

\* A reading-mode toggle has put the one marker of a note, on a line other
\* than the estimated one.
C1_Witness ==
    /\ last.type = "insert" /\ ~last.found
    /\ CountMarkers(docs[last.file]) = 1
    /\ FindBookmark(docs[last.file]).lineNumber # last.line
    /\ icon = "bookmark-check"

\* C2: a toggle on a marked note jumps to the marker's line at once and
\* leaves the text alone, only scheduling a callback; and a callback runs
\* only when 500 ms have passed since it was scheduled.
C2_JumpThenDeferredRemoval ==
    [][ /\ (last'.type \in ToggleTypes /\ CountMarkers(EditorValue) > 0) =>
              /\ last'.type = "jump"
              /\ last'.line = FindBookmark(EditorValue).lineNumber
              /\ docs' = docs
              /\ Len(timers') = Len(timers) + 1
              /\ timers'[Len(timers')].age = 0
        /\ (last'.type \in FireTypes) =>
              /\ timers # <<>>
              /\ Head(timers).age >= REMOVAL_DELAY
        /\ (last'.type \in {"removeLine", "strip"}) =>
              \E i \in 1..Len(procs) : procs[i].kind = last'.type ]_vars

\* A callback has run undisturbed and has taken the marker out of the
\* editor.
C2_Witness ==
    /\ last.type = "fireBuffer" /\ last.found /\ last.hist = "quiet"
    /\ CountMarkers(docs[last.file]) = 0

\* C3: the marker is self-erasing.  When the callback of a toggle on a
\* note with one marker runs, and no other toggle, cleanup or user edit
\* has happened, its removal is aimed at that note, and once it is done
\* the note holds no marker and the icon is the plain bookmark.
C3_SelfErasing ==
    [][ /\ (last'.type \in FireTypes /\ last'.hist = "quiet") =>
              \/ /\ last'.type = "fireBuffer"
                 /\ CountMarkers(docs'[Head(timers).reqFile]) = 0
                 /\ icon' = "bookmark"
              \/ /\ last'.type = "fireProcess"
                 /\ last'.file = Head(timers).reqFile
        /\ (last'.type \in {"removeLine", "strip"} /\ last'.hist = "quiet") =>
              /\ CountMarkers(After) = 0
              /\ icon' = "bookmark" ]_vars

\* C4: a removal that finds no marker, the marker having been deleted by
\* hand in the meantime, changes no text (and is defined: nothing throws),
\* through the editor and through Vault.process alike.
C4_StaleRemovalIsNoOp ==
    [][ (last'.type \in RemovalTypes /\ ~last'.found) => docs' = docs ]_vars

\* The user has deleted the marker during the delay, and the removal has
\* then run through Vault.process and found nothing.
C4_Witness ==
    /\ last.type = "removeLine" /\ ~last.found /\ last.hist = "edited"

\* C5: when the view shows another note by the time the callback runs,
\* the removal is aimed at the note of the request, through Vault.process,
\* and the text of the note now open is not changed.
C5_OriginalDocument ==
    [][ (/\ last'.type \in FireTypes
         /\ viewFile \in Files
         /\ Head(timers).reqFile # viewFile) =>
              /\ last'.type = "fireProcess"
              /\ last'.file = Head(timers).reqFile
              /\ docs' = docs ]_vars

\* C6: a removal does not take out a marker that a toggle put after the
\* removal's callback was scheduled.
C6_FreshMarkerSurvives ==
    [][ (last'.type \in RemovalTypes /\ last'.hist \in Files) =>
              docs'[last'.hist] = docs[last'.hist] ]_vars

\* C7: the callback chooses between Vault.process and the editor by the
\* mode of the view when it runs, whatever the mode was at the request.
C7_ChannelFromFireTimeMode ==
    [][ (last'.type \in FireTypes) =>
              IF mode = "preview"
              THEN IF viewFile = NoFile
                   THEN last'.type = "fireNone" /\ docs' = docs
                   ELSE /\ last'.type = "fireProcess"
                        /\ Len(procs') = Len(procs) + 1
                        /\ procs'[Len(procs')].kind = "removeLine"
                        /\ docs' = docs
              ELSE /\ last'.type = "fireBuffer"
                   /\ Len(procs') = Len(procs)
                   /\ viewFile # NoFile =>
                          docs' = [docs EXCEPT ![viewFile] = RemoveBookmark(@)] ]_vars

\* A callback scheduled in source mode has run in reading mode and has
\* called Vault.process.
C7_Witness ==
    /\ last.type = "fireProcess" /\ last.modeChanged
    /\ mode = "preview"

\* C8: a toggle changes the icon only in a step that has applied its
\* change to the text: to bookmark-check only with the marker in the
\* note, to the plain bookmark only with the marker taken out (or none
\* found).
C8_IndicatorAfterMutation ==
    [][ (/\ last'.type \in ToggleTypes \cup FireTypes \cup RemovalTypes \cup {"insert"}
         /\ icon' # icon) =>
              IF icon' = "bookmark-check"
              THEN /\ last'.type \in {"insertEdit", "insert"}
                   /\ CountMarkers(After) > 0
              ELSE /\ last'.type \in RemovalTypes
                   /\ \/ ~last'.found
                      \/ CountMarkers(After) < CountMarkers(Before) ]_vars

\* Vault.process has taken the marker out and the icon has then become
\* the plain bookmark.
C8_Witness ==
    /\ last.type = "removeLine" /\ last.found
    /\ CountMarkers(docs[last.file]) = 0
    /\ icon = "bookmark"

\* C9: a toggle jumps exactly when the text it reads holds a marker,
\* whatever the icon shows and whatever callbacks and calls are pending.
C9_BranchFromContentOnly ==
    [][ (last'.type \in ToggleTypes) =>
              ((last'.type = "jump") <=> (CountMarkers(EditorValue) > 0)) ]_vars

\* A toggle has jumped although the icon showed the plain bookmark.
C9_Witness ==
    /\ last.type = "jump"
    /\ icon = "bookmark"

\* C10 (for the reading-mode insertion): on a note that starts with a
\* frontmatter block, the line that receives the marker lies after the
\* closing '---'.
C10_NotInHeader ==
    [][ (/\ last'.type = "insert" /\ ~last'.found
         /\ FrontmatterEndIndex(SplitLines(Before)) # Null) =>
              FindBookmark(After).lineNumber >
                  FrontmatterEndIndex(SplitLines(Before)) ]_vars

\* ------------------------------------------------------------------------
\* The placement rules on their own
\* ------------------------------------------------------------------------

\* Most lines of a document handed to the placement rules.
MaxLines == 5

\* A line of text, a header delimiter, a fence delimiter.
PlacementLines == { <<>>, <<"a">>, <<"D">>, <<"F">> }

PlacementDocs == UNION { [1..k -> PlacementLines] : k \in 1..MaxLines }

\* History of a placement: the candidate line and the line chosen.
Placed(type, candidate, target) ==
    [type |-> type, file |-> viewFile, line |-> candidate, target |-> target]

InitPlacement ==
    /\ docs \in {[f \in Files |-> IF f = "A" THEN Join(ls, <<"LF">>) ELSE <<>>] :
                 ls \in PlacementDocs}
    /\ viewFile = "A"
    /\ mode \in {"source", "preview"}
    /\ icon = "bookmark"
    /\ timers = <<>>
    /\ procs = <<>>
    /\ last = Nothing
    /\ warnings = 0
    /\ decorations = {}
    /\ ChromeReady

\* insertBookmark(editor, detectedLine) chooses its line.
PlaceEditable(n) ==
    /\ mode = "source"
    /\ last' = Placed("resolveTarget", n, ResolveTarget(SplitLines(EditorValue), n))
    /\ UNCHANGED <<docs, viewFile, mode, icon, timers, procs>>
    /\ warnings' = 0
    /\ UNCHANGED <<decorations, chrome>>

\* The function handed to Vault.process chooses its line.
PlaceRendered(n) ==
    /\ mode = "preview"
    /\ last' = Placed("previewTarget", n,
                      PreviewTargetLine(SplitLines(EditorValue), n))
    /\ UNCHANGED <<docs, viewFile, mode, icon, timers, procs>>
    /\ warnings' = 0
    /\ UNCHANGED <<decorations, chrome>>

NextPlacement ==
    \/ \E n \in 0..MaxLines : PlaceEditable(n)
    \/ \E n \in 0..MaxLines : PlaceRendered(n)

SpecPlacement == InitPlacement /\ [][NextPlacement]_vars

\* The document of a placement, as lines.
PlacedLines == SplitLines(docs["A"])

\* The index of the first '---' after line 0.  0-based.
FirstCloser(lines) ==
    CHOOSE c \in 1..(Len(lines) - 1) :
        /\ lines[c + 1] = <<"D">>
        /\ \A j \in 1..(c - 1) : lines[j + 1] # <<"D">>

HasHeader(lines) ==
    lines[1] = <<"D">> /\ \E c \in 1..(Len(lines) - 1) : lines[c + 1] = <<"D">>

C12_NeverInFence ==
    last.type = "resolveTarget" =>
        /\ ~IsFenceLine(PlacedLines[last.target + 1])
        /\ FencesUpTo(PlacedLines, last.target) % 2 = 0

\* The nearest fence-delimiter line at or before line k; Null when there is
\* none.  0-based.
RECURSIVE WalkBack(_, _)
WalkBack(lines, k) ==
    IF k < 0 THEN Null
    ELSE IF IsFenceLine(lines[k + 1]) THEN k
    ELSE WalkBack(lines, k - 1)

\* The opening fence of the fence that line k delimits or lies in.
OpeningFence(lines, k) ==
    IF FencesUpTo(lines, k) % 2 = 1 THEN WalkBack(lines, k)
    ELSE WalkBack(lines, k - 1)

InFence(lines, k) == IsFenceLine(lines[k + 1]) \/ FencesUpTo(lines, k) % 2 = 1

\* C13 as stated: whenever the candidate given to resolveTarget is a
\* fence-delimiter line or inside a fence whose opening line is i > 0, the
\* result is i - 1.
C13_FenceRelocationOfCandidate ==
    (/\ last.type = "resolveTarget"
     /\ last.line < Len(PlacedLines)
     /\ InFence(PlacedLines, last.line)
     /\ OpeningFence(PlacedLines, last.line) > 0) =>
        last.target = OpeningFence(PlacedLines, last.line) - 1

\* C13, amended: whenever the candidate, as the header rule leaves it, is a
\* fence-delimiter line or inside a fence whose opening line is i > 0, the
\* result is i - 1.
C13_FenceRelocation ==
    (last.type = "resolveTarget" /\ last.line < Len(PlacedLines)) =>
        LET k == HeaderAvoid(PlacedLines, last.line)
        IN  (InFence(PlacedLines, k) /\ OpeningFence(PlacedLines, k) > 0) =>
                last.target = OpeningFence(PlacedLines, k) - 1

\* ['a', '```', 'code', '```', 'b'] with candidate 2 gives 0.
C13_Witness ==
    /\ last.type = "resolveTarget"
    /\ PlacedLines = << <<"a">>, <<"F">>, <<"a">>, <<"F">>, <<"a">> >>
    /\ last.line = 2
    /\ last.target = 0

\* ------------------------------------------------------------------------
\* The estimators on their own
\* ------------------------------------------------------------------------

\* What the host may report: a scroll value that is a percentage or a
\* number of pixels, the height of the viewport, the height of the content.
Scrolls == {0, 1, 29, 50, 100, 101, 500, 2000}

EstimatorSamples ==
    { [scroll |-> s, viewport |-> v, scrollHeight |-> h, throws |-> th] :
        s \in Scrolls, v \in {0, 200}, h \in {0, 400, 1000}, th \in BOOLEAN }

\* editor.lineCount()
TotalLines == (1..MaxLines) \cup {100}

\* History of an estimate: what the host reported, the number of lines, and
\* once the estimator has run (type "estimate") the line it returned.
Sampled(type, sample, totalLines, line) ==
    [type |-> type, file |-> "A", sample |-> sample, totalLines |-> totalLines,
     line |-> line]

InitEstimator ==
    /\ docs = [f \in Files |-> <<>>]
    /\ viewFile = "A"
    /\ mode \in {"source", "preview"}
    /\ icon = "bookmark"
    /\ timers = <<>>
    /\ procs = <<>>
    /\ last \in {Sampled("sample", sm, t, Null) :
                 sm \in EstimatorSamples, t \in TotalLines}
    /\ warnings = 0
    /\ decorations = {}
    /\ ChromeReady

\* this.getVisibleLineInPreview(view)
EstimateRendered ==
    /\ mode = "preview"
    /\ last.type = "sample"
    /\ last' = Sampled("estimate", last.sample, last.totalLines,
                       GetVisibleLineInPreview(last.sample, last.totalLines))
    /\ UNCHANGED <<docs, viewFile, mode, icon, timers, procs>>
    /\ warnings' = 0
    /\ UNCHANGED <<decorations, chrome>>

\* this.bookmarkManager.getFirstVisibleLine(editor)
EstimateEditable ==
    /\ mode = "source"
    /\ last.type = "sample"
    /\ last' = Sampled("estimate", last.sample, last.totalLines,
                       GetFirstVisibleLine(last.sample, last.totalLines))
    /\ UNCHANGED <<docs, viewFile, mode, icon, timers, procs>>
    /\ warnings' = 0
    /\ UNCHANGED <<decorations, chrome>>

NextEstimator == EstimateRendered \/ EstimateEditable

SpecEstimator == InitEstimator /\ [][NextEstimator]_vars

\* clamp to [0, totalLines - 1]
Clamp(n, totalLines) == Max(0, Min(n, totalLines - 1))

\* C14: with scroll offset, viewport extent, content extent and line count
\* all above 0, the estimate of either mode is an integer in
\* [0, totalLines - 1].
C14_EstimatorBounds ==
    (/\ last.type = "estimate"
     /\ last.sample.scroll > 0
     /\ last.sample.viewport > 0
     /\ last.sample.scrollHeight > 0
     /\ last.totalLines > 0) =>
        last.line \in 0..(last.totalLines - 1)

\* A pixel offset beyond the content height is clamped to the last line.
C14_Witness ==
    /\ last.type = "estimate"
    /\ mode = "preview"
    /\ ~last.sample.throws
    /\ last.sample.scroll = 2000
    /\ last.sample.viewport = 200
    /\ last.sample.scrollHeight = 1000
    /\ last.totalLines = 3
    /\ last.line = 2

\* C15: the rendered-mode estimate is clamp(floor(scroll * totalLines /
\* 100)) for a scroll value up to 100 and clamp(floor(scroll * totalLines /
\* contentExtent)) above 100.
C15_UnitDisambiguation ==
    (/\ last.type = "estimate"
     /\ mode = "preview"
     /\ ~last.sample.throws
     /\ (last.sample.scroll > PERCENT_LIMIT => last.sample.scrollHeight > 0)) =>
        last.line =
            Clamp(IF last.sample.scroll <= PERCENT_LIMIT
                  THEN (last.sample.scroll * last.totalLines) \div PERCENT_LIMIT
                  ELSE (last.sample.scroll * last.totalLines)
                           \div last.sample.scrollHeight,
                  last.totalLines)

\* C16: when the host call fails, or the container has no height where the
\* content height is needed, the rendered-mode estimate is line 0.
C16_FailureGivesLineZero ==
    (/\ last.type = "estimate"
     /\ mode = "preview"
     /\ \/ last.sample.throws
        \/ last.sample.scrollHeight = 0 /\ last.sample.scroll > PERCENT_LIMIT) =>
        last.line = 0

\* ------------------------------------------------------------------------
\* Insertion and cleanup on any text
\* ------------------------------------------------------------------------

\* Most characters of a text at the start.
MaxTextLen == 4

CodecTokens == {"a", " ", "LF", "CR", "M", "Mh", "Mt"}

\* The texts: the two halves of a marker side by side are written "M".
CodecTexts ==
    { t \in UNION { [1..k -> CodecTokens] : k \in 0..MaxTextLen } : Fuse(t) = t }

\* The note holds any text; the function of a rendered-mode insertion may
\* be waiting in Vault.process with any visibleLine.
InitCodec ==
    /\ docs \in {[f \in Files |-> IF f = "A" THEN t ELSE <<>>] : t \in CodecTexts}
    /\ viewFile = "A"
    /\ mode \in {"source", "preview"}
    /\ icon = IconFor(docs["A"])
    /\ timers = <<>>
    /\ procs \in {<<>>} \cup {<<NewProc("insert", "A", v, "-")>> : v \in 0..MaxTextLen}
    /\ last = Nothing
    /\ warnings = 0
    /\ decorations = {}
    /\ ChromeReady

NextCodec ==
    \/ \E i \in 1..Len(procs) : ProcessComplete(i)
    \/ CleanupMultipleBookmarks /\ Bounded
    \/ SwitchMode

SpecCodec == InitCodec /\ [][NextCodec]_vars

\* The steps in which a cleanup rewrites the text.
CleanupTypes == {"cleanupEdit", "cleanup"}

\* C17: when cleanupMultipleBookmarks has rewritten the text, in either
\* mode, the note holds no marker and the icon is 'bookmark'.
C17_CleanupPostcondition ==
    [][last'.type \in CleanupTypes =>
           (CountMarkers(After) = 0 /\ icon' = "bookmark")]_vars

\* C18: stripping what the strip has left changes nothing, and a text
\* without a marker is left as it is.
C18_IdempotentStrip ==
    [][last'.type \in CleanupTypes =>
           (/\ StripTransform(After) = After
            /\ (CountMarkers(Before) = 0 => After = Before))]_vars

\* C19: after the insertion on a line L that held no marker, no line above
\* it holding one either, findBookmark finds the marker on line L, and in
\* the text that the strip makes of the result it finds none.
C19_InsertFindRoundTrip ==
    [][last'.type = "insert" =>
           LET lines == SplitLines(Before)
               L     == Clamp(last'.line, Len(lines))
           IN  (\A i \in 1..(L + 1) : ~Includes(lines[i], BOOKMARK_MARKER)) =>
                   /\ FindBookmark(After) = [hasBookmark |-> TRUE, lineNumber |-> L]
                   /\ ~FindBookmark(StripTransform(After)).hasBookmark]_vars

\* C20: the insertion appends one space and the marker to the target line
\* and changes no other line; it changes no line at all when the target
\* line holds a marker.
C20_InsertionFrame ==
    [][last'.type = "insert" =>
           LET lines  == SplitLines(Before)
               lines2 == SplitLines(After)
               L      == Clamp(last'.line, Len(lines))
           IN  /\ Len(lines2) = Len(lines)
               /\ \A i \in 1..Len(lines) : i # L + 1 => lines2[i] = lines[i]
               /\ lines2[L + 1] = IF Includes(lines[L + 1], BOOKMARK_MARKER)
                                  THEN lines[L + 1]
                                  ELSE lines[L + 1] \o <<" ", BOOKMARK_MARKER>>]_vars

\* An insertion on the second line of a text with mixed line endings.
C20_Witness ==
    /\ last.type = "insert"
    /\ last.line = 1
    /\ docs["A"] = <<"CR", "LF", " ", "M", "CR", "LF">>

\* ------------------------------------------------------------------------
\* Rewriting a note: the removal of a callback and the rendered insertion
\* ------------------------------------------------------------------------

RewriteTokens == {"a", " ", "LF", "CR", "M"}

\* Notes whose marker stands in a metadata header or a fenced block.
EnclosedDocs ==
    { <<"D", "LF", "a", " ", "M", "LF", "D", "LF", "a">>,
      <<"F", "LF", "a", " ", "M", "LF", "F">>,
      <<"a", "LF", "F", "LF", "M", "LF", "F", "LF", "a", " ", "M">> }

RewriteTexts ==
    UNION { [1..k -> RewriteTokens] : k \in 0..MaxTextLen } \cup EnclosedDocs

\* visibleLine of the insertion in flight
RewriteLines == {0, 1}

\* The note holds any text, and either a callback is due or the function of
\* a rendered-mode insertion is waiting in Vault.process.
InitRewrite ==
    /\ docs \in {[f \in Files |-> IF f = "A" THEN t ELSE <<>>] : t \in RewriteTexts}
    /\ viewFile = "A"
    /\ mode \in {"source", "preview"}
    /\ icon = IconFor(docs["A"])
    /\ \/ /\ timers = <<[NewTimer("A", mode, "busy") EXCEPT !.age = REMOVAL_DELAY]>>
          /\ procs = <<>>
       \/ /\ timers = <<>>
          /\ procs \in {<<NewProc("insert", "A", v, "-")>> : v \in RewriteLines}
    /\ last = Nothing
    /\ warnings = 0
    /\ decorations = {}
    /\ ChromeReady

NextRewrite ==
    \/ FireTimer
    \/ \E i \in 1..Len(procs) : ProcessComplete(i)
    \/ CheckAndUpdateIcon
    \/ SwitchMode

SpecRewrite == InitRewrite /\ [][NextRewrite]_vars

\* The steps that take the marker from one line.
SingleLineRemovalTypes == {"removeLine", "fireBuffer"}

\* The first marker of a line that holds one.
FirstMarker(line) ==
    CHOOSE i \in 1..Len(line) :
        /\ line[i] = BOOKMARK_MARKER
        /\ \A j \in 1..(i - 1) : line[j] # BOOKMARK_MARKER

\* A line without its tokens from..to
Without(line, from, to) ==
    SubSeq(line, 1, from - 1) \o SubSeq(line, to + 1, Len(line))

\* Every '\r' of the text is the first half of a '\r\n'.
CarriageReturnsPaired(content) ==
    \A i \in 1..Len(content) :
        content[i] = "CR" => i < Len(content) /\ content[i + 1] = "LF"

\* C21: the removal of a callback takes from the line that find reports
\* the marker and at most one space right before it, leaves the rest of
\* that line and every other line as they were, and leaves a text without
\* a marker as it is (in a text whose '\r' all belong to line breaks).
C21_SingleLineRemoval ==
    [][last'.type \in SingleLineRemovalTypes /\ CarriageReturnsPaired(Before) =>
         LET bs     == FindBookmark(Before)
             lines  == SplitLines(Before)
             lines2 == SplitLines(After)
         IN  IF ~bs.hasBookmark THEN After = Before
             ELSE LET line == lines[bs.lineNumber + 1]
                      m    == FirstMarker(line)
                  IN  /\ Len(lines2) = Len(lines)
                      /\ \A i \in 1..Len(lines) :
                             i # bs.lineNumber + 1 => lines2[i] = lines[i]
                      /\ \/ lines2[bs.lineNumber + 1] = Without(line, m, m)
                         \/ /\ m > 1
                            /\ line[m - 1] = " "
                            /\ lines2[bs.lineNumber + 1] = Without(line, m - 1, m)]_vars

\* The steps of Vault.process that split a text into lines and join it.
RejoinTypes == {"insert", "removeLine"}

\* C22 as stated: a rendered-mode insertion or removal leaves after every
\* line the line break that the text had there.
C22_LineEndingPreservation ==
    [][last'.type \in RejoinTypes => Separators(After) = Separators(Before)]_vars

\* Every line break of the text is the same.
UniformLineEndings(content) ==
    \A i, j \in 1..Len(Separators(content)) :
        Separators(content)[i] = Separators(content)[j]

\* C22, amended: a rendered-mode insertion or removal leaves after every
\* line the line break that the text had there, when the text uses one kind
\* of line break throughout.
C22_UniformLineEndingPreservation ==
    [][last'.type \in RejoinTypes /\ UniformLineEndings(Before) =>
         Separators(After) = Separators(Before)]_vars

\* A text whose line breaks are all '\r\n' has been rewritten.
C22_Witness ==
    /\ last.type \in RejoinTypes
    /\ last.found
    /\ CountMarkers(docs[last.file]) = 0
    /\ Separators(docs[last.file]) = << <<"CR", "LF">> >>

\* ------------------------------------------------------------------------
\* The notice about more than one bookmark
\* ------------------------------------------------------------------------

\* The steps that read the text to find the marker.
InspectionTypes == ToggleTypes \cup {"checkIcon"}

\* C23: every step that reads the text to find the marker, the set-up of a
\* view and a toggle alike, shows the notice once when the text holds more
\* than one marker, and shows none when it holds at most one.
C23_WarningOnEveryInspection ==
    [][last'.type \in InspectionTypes =>
         warnings' = IF CountMarkers(EditorValue) > 1 THEN 1 ELSE 0]_vars

\* C24: on a text that holds more than one marker, the set-up of a view
\* removes none and the removal of a callback removes exactly one, the one
\* find reports.
C24_NoAutoRepair ==
    [][/\ last'.type = "checkIcon" /\ CountMarkers(Before) > 1 => After = Before
       /\ last'.type \in SingleLineRemovalTypes /\ CountMarkers(Before) > 1 =>
              CountMarkers(After) = CountMarkers(Before) - 1]_vars

\* ------------------------------------------------------------------------
\* The revision that switches to source mode to change the text
\* (view.setState around every change made from reading view)
\* ------------------------------------------------------------------------

\* How the two view.setState calls of a handler end: both succeed, the
\* switch to source mode is rejected, or the switch back is rejected.
SwitchFailures == {"none", "toSource", "toPreview"}

\* str.replace(/M\s*/g, ''): every marker goes, and with it the whole run
\* of whitespace that follows it.
RECURSIVE SkipSpace(_, _)
SkipSpace(s, i) ==
    IF i <= Len(s) /\ s[i] \in Whitespace THEN SkipSpace(s, i + 1) ELSE i

RECURSIVE TrailingFrom(_, _)
TrailingFrom(s, i) ==
    IF i > Len(s) THEN <<>>
    ELSE IF s[i] = BOOKMARK_MARKER THEN TrailingFrom(s, SkipSpace(s, i + 1))
    ELSE <<s[i]>> \o TrailingFrom(s, i + 1)

\* cleanedContent: the two replace calls, one after the other
CleanedContent(content) ==
    Fuse(TrailingFrom(ReplaceMarkerCleanupRe(content), 1))

\* History of a step of this revision: which handler ran (type), on which
\* note, whether the text it read held a marker, how its setState calls
\* ended (failed), and whether the handler's promise was rejected (thrown).
Switched(type, found, failed, thrown) ==
    [type |-> type, file |-> viewFile, found |-> found, failed |-> failed,
     thrown |-> thrown]

\* toggleBookmark(view)
ToggleBookmarkSetState ==
    /\ LET content       == EditorValue
           bookmarkState == FindBookmark(content)
       IN  IF bookmarkState.hasBookmark /\ bookmarkState.lineNumber # Null
           THEN /\ timers' = Append(timers, NewTimer(viewFile, mode, "busy"))
                /\ last' = Switched("jump", TRUE, "none", FALSE)
                /\ UNCHANGED <<docs, mode, icon>>
           ELSE \E line \in 0..(LineCount(content) - 1), failed \in SwitchFailures :
                    /\ mode = "source" => failed = "none"
                    /\ docs' = [docs EXCEPT ![viewFile] =
                                   IF failed = "toPreview"
                                   THEN InsertBookmark(InsertBookmark(content, line), line)
                                   ELSE InsertBookmark(content, line)]
                    /\ mode' = IF failed = "toPreview" THEN "source" ELSE mode
                    /\ icon' = "bookmark-check"
                    /\ last' = Switched("insert", FALSE, failed, FALSE)
                    /\ UNCHANGED timers
    /\ UNCHANGED <<viewFile, procs>>
    /\ warnings' = 0
    /\ UNCHANGED <<decorations, chrome>>

\* The callback handed to setTimeout.
RemovalCallbackSetState ==
    /\ timers # <<>>
    /\ TimerDue(Head(timers))
    /\ \E failed \in SwitchFailures :
           /\ mode = "source" => failed = "none"
           /\ docs' = [docs EXCEPT ![viewFile] =
                          IF failed = "toPreview"
                          THEN RemoveBookmark(RemoveBookmark(EditorValue))
                          ELSE RemoveBookmark(EditorValue)]
           /\ mode' = IF failed = "toPreview" THEN "source" ELSE mode
           /\ last' = Switched("remove", CountMarkers(EditorValue) > 0, failed, FALSE)
    /\ timers' = Tail(timers)
    /\ icon' = "bookmark"
    /\ UNCHANGED <<viewFile, procs>>
    /\ warnings' = 0
    /\ UNCHANGED <<decorations, chrome>>

\* cleanupMultipleBookmarks(editor, view): the awaits are not inside a try.
CleanupMultipleBookmarksSetState ==
    /\ \E failed \in SwitchFailures :
           /\ mode = "source" => failed = "none"
           /\ docs' = IF failed = "toSource" THEN docs
                      ELSE [docs EXCEPT ![viewFile] = CleanedContent(EditorValue)]
           /\ mode' = IF failed = "toPreview" THEN "source" ELSE mode
           /\ icon' = IF failed = "none" THEN "bookmark" ELSE icon
           /\ last' = Switched("cleanup", CountMarkers(EditorValue) > 0, failed,
                               failed # "none")
    /\ UNCHANGED <<viewFile, timers, procs>>
    /\ warnings' = 0
    /\ UNCHANGED <<decorations, chrome>>

NextSetState ==
    \/ ToggleBookmarkSetState /\ Bounded
    \/ RemovalCallbackSetState
    \/ CleanupMultipleBookmarksSetState
    \/ Tick
    \/ SwitchMode

SpecSetState == Init /\ [][NextSetState]_vars

\* The steps that change the text.
MutationTypes == {"insert", "remove", "cleanup"}

\* C25: when a switch of render mode fails in an insertion, a removal or a
\* cleanup, the handler does not fail, and the text is changed all the
\* same: the insertion leaves a marker, the removal leaves fewer markers
\* than it found, the cleanup leaves none.
C25_SwitchFailureRecovered ==
    [][last'.type \in MutationTypes /\ last'.failed # "none" =>
         /\ ~last'.thrown
         /\ last'.type = "insert" => CountMarkers(After) = 1
         /\ last'.type = "remove" /\ last'.found =>
                CountMarkers(After) < CountMarkers(Before)
         /\ last'.type = "cleanup" => CountMarkers(After) = 0]_vars

\* ------------------------------------------------------------------------
\* The editor extension (gutterDecoration.ts): BookmarkDecorationPlugin
\* ------------------------------------------------------------------------

\* The editor keeps its document with '\n' between the lines.
DecorationTokens == {"a", " ", "LF", "M"}

DecorationTexts == UNION { [1..k -> DecorationTokens] : k \in 0..MaxTextLen }

\* updateBookmarkEffect values, and no effect at all
NoEffect == [lineNumber |-> Null, hasBookmark |-> FALSE]

Effects ==
    {NoEffect} \cup
    [lineNumber : 0..MaxTextLen, hasBookmark : BOOLEAN]

RECURSIVE SplitNewlineFrom(_, _, _, _)
SplitNewlineFrom(s, i, cur, out) ==
    IF i > Len(s) THEN Append(out, cur)
    ELSE IF s[i] = "LF" THEN SplitNewlineFrom(s, i + 1, <<>>, Append(out, cur))
    ELSE SplitNewlineFrom(s, i + 1, Append(cur, s[i]), out)

\* content.split('\n')
SplitNewline(content) == SplitNewlineFrom(content, 1, <<>>, <<>>)

\* Decoration.line({ class: 'cm-bookmark-line' }) at the start of a line
LineDecoration(index) ==
    [class |-> "cm-bookmark-line", line |-> index, at |-> Null]

\* Decoration.mark({ class: 'cm-bookmark-marker-hidden' }) over the marker
\* that starts at markerStart in its line
MarkDecoration(index, markerStart) ==
    [class |-> "cm-bookmark-marker-hidden", line |-> index, at |-> markerStart]

\* buildDecorations(view): on every line that includes the marker, a line
\* decoration and a mark over the marker that lineContent.indexOf finds;
\* lines are numbered from 0 here.
BuildDecorations(content) ==
    LET lines  == SplitNewline(content)
        marked == {index \in 0..(Len(lines) - 1) :
                       Includes(lines[index + 1], BOOKMARK_MARKER)}
        markerStart(lineContent) ==
            (CHOOSE i \in 1..Len(lineContent) :
                 /\ lineContent[i] = BOOKMARK_MARKER
                 /\ \A j \in 1..(i - 1) : lineContent[j] # BOOKMARK_MARKER) - 1
    IN  {LineDecoration(index) : index \in marked} \cup
        {MarkDecoration(index, markerStart(lines[index + 1])) : index \in marked}

\* buildDecorationsFromEffect(view, effect): doc.line throws for a line
\* the document does not have, and the set stays empty.
BuildDecorationsFromEffect(content, effect) ==
    IF effect.hasBookmark /\ effect.lineNumber + 1 \in 1..LineCount(content)
    THEN {LineDecoration(effect.lineNumber)}
    ELSE {}

\* An update that handled the effect after the rebuild.
Update_effectLast(current, content, docChanged, effect) ==
    LET rebuilt == IF docChanged THEN BuildDecorations(content) ELSE current
    IN  IF effect # NoEffect
        THEN BuildDecorationsFromEffect(content, effect)
        ELSE rebuilt

\* update(update): the decorations after a transaction.  The set mapped
\* through the changes is replaced by the rebuild whenever the document
\* changed.
Update(current, content, docChanged, effect) ==
    LET handled == IF effect # NoEffect
                   THEN BuildDecorationsFromEffect(content, effect)
                   ELSE current
    IN  IF docChanged THEN BuildDecorations(content) ELSE handled

\* History of a transaction: whether it changed the document, and the
\* effect it carried.
Dispatched(docChanged, effect) ==
    [type |-> "transaction", file |-> "A", docChanged |-> docChanged,
     effect |-> effect]

\* The editor is constructed on any text.
InitDecoration ==
    /\ docs \in {[f \in Files |-> IF f = "A" THEN t ELSE <<>>] :
                 t \in DecorationTexts}
    /\ viewFile = "A"
    /\ mode = "source"
    /\ icon = IconFor(docs["A"])
    /\ timers = <<>>
    /\ procs = <<>>
    /\ last = Nothing
    /\ warnings = 0
    /\ decorations = BuildDecorations(docs["A"])
    /\ ChromeReady

\* A transaction that types one character, with or without an effect.
TypeCharacter ==
    \E at \in 0..Len(docs["A"]), c \in DecorationTokens, effect \in Effects :
        /\ Len(docs["A"]) < MaxTextLen
        /\ LET content == SubSeq(docs["A"], 1, at) \o <<c>> \o
                          SubSeq(docs["A"], at + 1, Len(docs["A"]))
           IN  /\ docs' = [docs EXCEPT !["A"] = content]
               /\ decorations' = Update(decorations, content, TRUE, effect)
        /\ last' = Dispatched(TRUE, effect)
        /\ UNCHANGED <<viewFile, mode, icon, timers, procs, warnings, chrome>>

\* A transaction that deletes one character, with or without an effect.
DeleteCharacter ==
    \E at \in 1..Len(docs["A"]), effect \in Effects :
        /\ LET content == RemoveAt(docs["A"], at)
           IN  /\ docs' = [docs EXCEPT !["A"] = content]
               /\ decorations' = Update(decorations, content, TRUE, effect)
        /\ last' = Dispatched(TRUE, effect)
        /\ UNCHANGED <<viewFile, mode, icon, timers, procs, warnings, chrome>>

\* updateBookmarkDecoration(view, lineNumber, hasBookmark): a transaction
\* that carries an effect and no change.
UpdateBookmarkDecoration ==
    \E effect \in Effects \ {NoEffect} :
        /\ decorations' = Update(decorations, docs["A"], FALSE, effect)
        /\ last' = Dispatched(FALSE, effect)
        /\ UNCHANGED <<docs, viewFile, mode, icon, timers, procs, warnings, chrome>>

NextDecoration == TypeCharacter \/ DeleteCharacter \/ UpdateBookmarkDecoration

SpecDecoration == InitDecoration /\ [][NextDecoration]_vars

\* The lines of a text that hold a marker.
MarkerLines(content) ==
    {i \in 0..(LineCount(content) - 1) :
         CountMarkers(SplitLines(content)[i + 1]) > 0}

\* The lines that carry a line decoration.
DecoratedLines(decos) ==
    {d.line : d \in {x \in decos : x.class = "cm-bookmark-line"}}

\* C26: after every change of the document the decorated lines are exactly
\* the lines that hold a marker, whatever the decorations were before and
\* whatever effect came with the change.
C26_DecorationProjection ==
    [][last'.type = "transaction" /\ last'.docChanged =>
         DecoratedLines(decorations') = MarkerLines(docs'["A"])]_vars

\* A change of the document came with an effect that names a line without
\* a marker, and the lines that hold the two markers are decorated.
C26_Witness ==
    /\ last.type = "transaction"
    /\ last.docChanged
    /\ last.effect.hasBookmark
    /\ last.effect.lineNumber \notin DecoratedLines(decorations)
    /\ Cardinality(DecoratedLines(decorations)) = 2

\* ------------------------------------------------------------------------
\* The line of the rendered-mode insertion
\* ------------------------------------------------------------------------

\* C27: whatever the text, an empty text and a text of one line included,
\* and whatever the estimate, the line chosen for the rendered-mode
\* insertion is a line of the text that is rewritten.
C27_TargetIsValidIndex ==
    last.type = "previewTarget" => last.target \in 0..(Len(PlacedLines) - 1)

\* The estimate lies beyond the last line of a one-line text, an empty one
\* included, and of a text that is all header.
C27_Witness ==
    /\ last.type = "previewTarget"
    /\ last.line > Len(PlacedLines) - 1
    /\ last.target = Len(PlacedLines) - 1
    /\ \/ docs["A"] = <<>>
       \/ HasHeader(PlacedLines) /\ PlacedLines[Len(PlacedLines)] = <<"D">>

\* ------------------------------------------------------------------------
\* Toggling again before the removal
\* ------------------------------------------------------------------------

\* A note with one marker is toggled, and toggled again while its marker is
\* still there; nothing else happens.
InitAgain == Init /\ CountMarkers(docs["A"]) = 1

NextAgain ==
    \/ ToggleBookmark /\ last'.type = "jump" /\ Len(timers') <= RapidTimers
    \/ FireTimer /\ Len(procs') <= RapidTimers
    \/ \E i \in 1..Len(procs) : ProcessComplete(i)
    \/ Tick

SpecAgain == InitAgain /\ [][NextAgain]_vars

\* C28: a toggle that comes while a removal is pending and the marker is
\* still there jumps and schedules one more removal, cancelling none;
\* every callback that runs takes one callback off the queue; a removal
\* that finds the marker takes it, one that finds none changes nothing;
\* and once every removal has run the note holds no marker.
C28_SecondToggleBeforeRemoval ==
    [][/\ last'.type = "jump" /\ timers # <<>> =>
              /\ Len(timers') = Len(timers) + 1
              /\ \A i \in 1..Len(timers) : timers'[i].age = timers[i].age
              /\ docs' = docs
       /\ last'.type \in FireTypes => Len(timers') = Len(timers) - 1
       /\ last'.type \in RemovalTypes /\ last'.found => CountMarkers(After) = 0
       /\ last'.type \in RemovalTypes /\ ~last'.found => After = Before
       /\ last'.type \in RemovalTypes /\ timers' = <<>> /\ procs' = <<>> =>
              CountMarkers(docs'["A"]) = 0]_vars

\* Both removals have run, and the second found nothing to remove.
C28_Witness ==
    /\ last.type \in RemovalTypes
    /\ ~last.found
    /\ timers = <<>>
    /\ procs = <<>>
    /\ CountMarkers(docs["A"]) = 0

\* C29: the rendered-mode removal rewrites the first line that holds the
\* marker when it runs, and no other line, also when that line lies in the
\* metadata header or in a fenced block.
C29_RemovalIgnoresPlacement ==
    [][last'.type = "removeLine" /\ last'.found =>
         LET lineNumber == FindBookmark(Before).lineNumber
             lines      == SplitLines(Before)
             lines2     == SplitLines(After)
         IN  /\ Len(lines2) = Len(lines)
             /\ lines2[lineNumber + 1] # lines[lineNumber + 1]
             /\ \A i \in 1..Len(lines) :
                    i # lineNumber + 1 => lines2[i] = lines[i]]_vars

\* The marker has been taken from a line of the header, or from a line of
\* a fenced block.
C29_Witness ==
    /\ last.type = "removeLine"
    /\ last.found
    /\ docs["A"] \in { <<"D", "LF", "a", "LF", "D", "LF", "a">>,
                      <<"F", "LF", "a", "LF", "F">>,
                      <<"a", "LF", "F", "LF", "LF", "F", "LF", "a", " ", "M">> }

\* ------------------------------------------------------------------------
\* One marker at most
\* ------------------------------------------------------------------------

\* The note starts with at most one marker and nobody edits its text:
\* toggles, callbacks, Vault.process calls, mode switches and the cleanup
\* command come in any order.
InitUnedited == Init /\ CountMarkers(docs["A"]) <= 1

NextUnedited ==
    \/ ToggleBookmark /\ Bounded
    \/ FireTimer /\ Bounded
    \/ \E i \in 1..Len(procs) : ProcessComplete(i)
    \/ CleanupMultipleBookmarks /\ Bounded
    \/ Tick
    \/ SwitchMode

SpecUnedited == InitUnedited /\ [][NextUnedited]_vars

\* C30: the note never holds more than one marker.
C30_AtMostOneMarker == CountMarkers(docs["A"]) <= 1

\* ------------------------------------------------------------------------
\* The icon and the text
\* ------------------------------------------------------------------------

\* Nobody edits the text, and the note starts with any number of markers.
SpecUntouched == Init /\ [][NextUnedited]_vars

\* C31: whenever no removal is pending and nothing is in progress, the icon
\* is 'bookmark-check' exactly when the note holds a marker.
C31_IndicatorConsistency ==
    timers = <<>> /\ procs = <<>> =>
        (icon = "bookmark-check" <=> CountMarkers(docs["A"]) > 0)

\* ------------------------------------------------------------------------
\* A toggle that sets the bookmark and a toggle that takes it back
\* ------------------------------------------------------------------------

\* Note A has no marker and is toggled; note B has the same text and is
\* never opened, so it keeps the text A started with.
InitCycle ==
    /\ docs \in {[f \in Files |-> t] : t \in {x \in RewriteTexts : CountMarkers(x) = 0}}
    /\ viewFile = "A"
    /\ mode \in {"source", "preview"}
    /\ icon = "bookmark"
    /\ timers = <<>>
    /\ procs = <<>>
    /\ last = Nothing
    /\ warnings = 0
    /\ decorations = {}
    /\ ChromeReady

NextCycle ==
    \/ ToggleBookmark /\ Bounded
    \/ FireTimer /\ Bounded
    \/ \E i \in 1..Len(procs) : ProcessComplete(i)
    \/ CleanupMultipleBookmarks /\ Bounded
    \/ Tick

SpecCycle == InitCycle /\ [][NextCycle]_vars

\* C32: when a toggle has put the marker into a note without one, and the
\* next toggle has jumped to it, the removal that follows, nothing else
\* having happened since the jump, leaves the text the note started with.
C32_CycleIsTextNeutral ==
    [][last'.type \in SingleLineRemovalTypes /\ last'.found /\ last'.hist = "quiet" =>
         docs'["A"] = docs'["B"]]_vars

\* The text is the text `original` with a space and the marker put at the
\* end of one of its lines.
IsInsertionInto(content, original) ==
    \E i \in 1..(Len(content) - 1) :
        /\ content[i] = " "
        /\ content[i + 1] = BOOKMARK_MARKER
        /\ i + 1 = Len(content) \/ content[i + 2] \in {"LF", "CR"}
        /\ Without(content, i, i + 1) = original

\* C33: the cleanup command, run on a text without a marker that has had
\* the marker put on one of its lines, gives back that text: as many lines,
\* and every line as it was.
C33_CleanupKeepsLines ==
    [][last'.type \in CleanupTypes /\ IsInsertionInto(Before, docs["B"]) =>
         SplitLines(After) = SplitLines(docs["B"])]_vars

\* ------------------------------------------------------------------------
\* The rendered-mode insertion and fenced blocks
\* ------------------------------------------------------------------------

\* C34: the line chosen for the rendered-mode insertion is not a
\* fence-delimiter line and does not lie inside a fenced block (in a text
\* that has a line outside its fenced blocks before the first of them).
C34_RenderedInsertionAvoidsFences ==
    last.type = "previewTarget" /\ ~InFence(PlacedLines, 0) =>
        ~InFence(PlacedLines, last.target)

\* ------------------------------------------------------------------------
\* A switch of mode that fails after the text was changed
\* ------------------------------------------------------------------------

\* C35: whichever view.setState call fails, a removal takes at most one
\* marker from the text and an insertion adds at most one.
C35_MutationAppliedOnce ==
    [][/\ last'.type = "remove" => CountMarkers(After) >= CountMarkers(Before) - 1
       /\ last'.type = "insert" => CountMarkers(After) <= CountMarkers(Before) + 1]_vars

\* ------------------------------------------------------------------------
\* The editor extension: hidden markers, and effects without a change
\* ------------------------------------------------------------------------

\* The markers of a text: line (from 0) and place in the line (from 0).
MarkerOccurrences(content) ==
    LET lines == SplitNewline(content)
    IN  {<<i - 1, p - 1>> : <<i, p>> \in
             {ip \in (1..Len(lines)) \X (1..Len(content)) :
                  ip[2] <= Len(lines[ip[1]]) /\ lines[ip[1]][ip[2]] = BOOKMARK_MARKER}}

\* C36: after a change of the document every marker of the text lies under
\* a mark decoration that hides it, also when a line holds two markers.
C36_EveryMarkerHidden ==
    [][last'.type = "transaction" /\ last'.docChanged =>
         \A o \in MarkerOccurrences(docs'["A"]) :
             MarkDecoration(o[1], o[2]) \in decorations']_vars

\* C38: in every state of the editor extension, also after an effect that
\* came without a change of the document, the decorated lines are the lines
\* of the document that hold a marker.
C38_DecorationsFollowText ==
    DecoratedLines(decorations) = MarkerLines(docs["A"])

\* ------------------------------------------------------------------------
\* The rendered-mode estimate along the scroll axis
\* ------------------------------------------------------------------------

\* C37: for one content extent and one number of lines, the rendered-mode
\* estimate of a scroll offset is never below the estimate of a smaller
\* scroll offset, in particular not across the offsets 100 and 101.
C37_EstimateMonotoneInScroll ==
    /\ last.type = "estimate"
    /\ mode = "preview"
    /\ ~last.sample.throws
    /\ last.sample.scrollHeight > 0
    => \A s \in Scrolls :
           s <= last.sample.scroll =>
               GetVisibleLineInPreview([last.sample EXCEPT !.scroll = s],
                                       last.totalLines) <= last.line

\* ------------------------------------------------------------------------
\* The action buttons of the view headers
\* ------------------------------------------------------------------------

\* getActionElement(view): this.actionElements.get(view) || null
GetActionElement(elements, view) ==
    IF view \in DOMAIN elements THEN elements[view] ELSE Null

\* hasActionForView(view): this.actionElements.has(view)
HasActionForView(elements, view) == view \in DOMAIN elements

\* The element that view.addAction creates: one that is in no header and
\* not in the registry.
NewElement(ui) ==
    LET used == {ui.actionElements[v] : v \in DOMAIN ui.actionElements} \cup
                UNION {ui.headerActions[v] : v \in Views}
    IN  CHOOSE n \in 1..(Cardinality(used) + 1) :
            n \notin used /\ \A m \in 1..(n - 1) : m \in used

\* addActionToView(view, callback): a new button in the header of the view,
\* stored under the view.
AddActionToView(ui, view) ==
    LET actionElement == NewElement(ui)
    IN  [actionElements |->
             [v \in DOMAIN ui.actionElements \cup {view} |->
                  IF v = view THEN actionElement ELSE ui.actionElements[v]],
         headerActions |->
             [ui.headerActions EXCEPT ![view] = @ \cup {actionElement}]]

\* removeActionFromView(view): actionElement.remove() and
\* this.actionElements.delete(view), when the view has an element.
RemoveActionFromView(ui, view) ==
    LET actionElement == GetActionElement(ui.actionElements, view)
    IN  IF actionElement # Null
        THEN [actionElements |->
                  [v \in DOMAIN ui.actionElements \ {view} |->
                       ui.actionElements[v]],
              headerActions |->
                  [ui.headerActions EXCEPT ![view] = @ \ {actionElement}]]
        ELSE ui

\* A setupView that adds the action whether or not the view has one.
SetupView_unguarded(ui, view) == AddActionToView(ui, view)

\* setupView(view), the button: added if getActionElement finds none.
SetupView(ui, view) ==
    IF GetActionElement(ui.actionElements, view) = Null
    THEN AddActionToView(ui, view)
    ELSE ui

\* iterateAllLeaves(leaf => this.setupView(leaf.view))
RECURSIVE SetupAllLeaves(_, _)
SetupAllLeaves(ui, views) ==
    IF views = {} THEN ui
    ELSE LET view == CHOOSE v \in views : TRUE
         IN  SetupAllLeaves(SetupView(ui, view), views \ {view})

\* iterateAllLeaves(leaf => this.viewActionManager.removeActionFromView(leaf.view))
RECURSIVE RemoveFromAllLeaves(_, _)
RemoveFromAllLeaves(ui, views) ==
    IF views = {} THEN ui
    ELSE LET view == CHOOSE v \in views : TRUE
         IN  RemoveFromAllLeaves(RemoveActionFromView(ui, view), views \ {view})

\* History of a workspace event: the view it was about, and whether that
\* view had a registered button before it.
Shown(type, view, had) ==
    [type |-> type, file |-> "A", view |-> view, had |-> had]

\* After onload and before the layout is ready: a new ViewActionManager,
\* any markdown views open, every one of them showing the note A.
InitActions ==
    /\ docs \in {[f \in Files |-> t] : t \in { <<"a">>, <<"a", " ", "M">>, <<"M", "LF", "M">> }}
    /\ viewFile = "A"
    /\ mode = "source"
    /\ icon = "bookmark"
    /\ timers = <<>>
    /\ procs = <<>>
    /\ last = Nothing
    /\ warnings = 0
    /\ decorations = BuildDecorations(docs["A"])
    /\ leaves \in SUBSET Views
    /\ activeView \in leaves \cup {NoView}
    /\ lifecycle = "loaded"
    /\ actionElements = << >>
    /\ headerActions = [v \in Views |-> {}]

\* The part of a step that sets up the views in views: their buttons, and
\* checkAndUpdateIcon for each of them.
SetsUp(views) ==
    LET ui == SetupAllLeaves([actionElements |-> actionElements,
                               headerActions |-> headerActions], views)
    IN  /\ actionElements' = ui.actionElements
        /\ headerActions' = ui.headerActions
        /\ icon' = IF views = {} THEN icon ELSE IconFor(EditorValue)
        /\ warnings' = Cardinality(views) * CheckForMultipleBookmarks(EditorValue)

\* The callback of onLayoutReady: every markdown view is set up, and the
\* plugin starts to listen for 'active-leaf-change'.
OnLayoutReady ==
    /\ lifecycle = "loaded"
    /\ SetsUp(leaves)
    /\ lifecycle' = "ready"
    /\ last' = Shown("layoutReady", NoView, FALSE)
    /\ UNCHANGED <<docs, viewFile, mode, timers, procs, decorations, leaves,
                   activeView>>

\* The user opens a markdown view, or makes another view or a pane that is
\* not a markdown view the active one; handleActiveLeafChange, when the
\* plugin listens, sets up the active markdown view if there is one.
ActiveLeafChange ==
    \E view \in (Views \cup {NoView}) \ {activeView} :
        /\ leaves' = leaves \cup ({view} \ {NoView})
        /\ activeView' = view
        /\ SetsUp(IF lifecycle = "ready" /\ view # NoView THEN {view} ELSE {})
        /\ last' = Shown("activeLeafChange", view,
                         HasActionForView(actionElements, view))
        /\ UNCHANGED <<docs, viewFile, mode, timers, procs, decorations,
                       lifecycle>>

\* onunload: the button of every markdown view is removed; the registered
\* event goes with the plugin.
Onunload ==
    /\ lifecycle # "unloaded"
    /\ LET ui == RemoveFromAllLeaves([actionElements |-> actionElements,
                               headerActions |-> headerActions], leaves)
       IN  /\ actionElements' = ui.actionElements
           /\ headerActions' = ui.headerActions
    /\ lifecycle' = "unloaded"
    /\ last' = Shown("unload", NoView,
                     \E v \in leaves : HasActionForView(actionElements, v))
    /\ warnings' = 0
    /\ UNCHANGED <<docs, viewFile, mode, icon, timers, procs, decorations,
                   leaves, activeView>>

\* onload of the plugin enabled again: a new ViewActionManager.
Onload ==
    /\ lifecycle = "unloaded"
    /\ actionElements' = << >>
    /\ lifecycle' = "loaded"
    /\ last' = Shown("load", NoView, FALSE)
    /\ warnings' = 0
    /\ UNCHANGED <<docs, viewFile, mode, icon, timers, procs, decorations,
                   leaves, activeView, headerActions>>

NextActions ==
    \/ OnLayoutReady
    \/ ActiveLeafChange
    \/ Onunload
    \/ Onload

SpecActions == InitActions /\ [][NextActions]_vars

\* C39: whatever layout-ready and active-view-change events have happened,
\* the header of every view holds at most one action button, and after the
\* removal for a view the view has no registered button: getActionElement
\* gives null, hasActionForView is false, and its header holds no button.
C39_AtMostOneActionPerView ==
    /\ \A v \in Views : Cardinality(headerActions[v]) <= 1
    /\ last.type = "unload" =>
           \A v \in leaves :
               /\ GetActionElement(actionElements, v) = Null
               /\ ~HasActionForView(actionElements, v)
               /\ headerActions[v] = {}

\* The active view changed to a view that already had its button, while
\* the plugin listens, and the view still has that one button.
C39_Witness ==
    /\ last.type = "activeLeafChange"
    /\ last.had
    /\ lifecycle = "ready"
    /\ Cardinality(headerActions[last.view]) = 1
    /\ HasActionForView(actionElements, last.view)
====
